---- MODULE Spec2Model ----
(***************************************************************************)
(* Promptify backend.                                                      *)
(*                                                                         *)
(* Two servers share one persistence service layer:                        *)
(*   - the live server (socket.io events plus the first REST surface) and  *)
(*     the first GameSessionService (updateRoundData / completeSession);   *)
(*   - the API server (REST only) and the second GameSessionService        *)
(*     (saveRound1Data / saveRound2Data / saveRound3Data / updateSession). *)
(*                                                                         *)
(* Spec      is the live server: connection, join, update_progress,        *)
(*           round_complete, game_complete, disconnect.                    *)
(* RankSpec  is Spec run one client event longer.                          *)
(* ServerSpec is the live server with its REST routes as well.             *)
(* StoreSpec is the API server's session operations on game_sessions.      *)
(***************************************************************************)
EXTENDS Integers, Sequences, FiniteSets, TLC

\* ------------------------------------------------------------------ bounds

\* Largest score a client reports in a payload.
MaxScore == 1
\* Largest elapsed time a client reports in a payload.
MaxTime == 1
\* Number of inbound client events (join, update_progress, round_complete,
\* game_complete; API requests) in one run.
MaxEvents == 3
\* Largest value Date.now() takes in one run (it may also repeat a value).
MaxClock == 1

\* ------------------------------------------------------------------ inputs

\* socket.id values in the order the transport hands them out; an id is
\* never reused.
SocketOrder == <<"s1", "s2">>
Sockets == {SocketOrder[i] : i \in 1..Len(SocketOrder)}
Usernames == {"alice", "bob"}
\* userData.avatarUrl: "" stands for a falsy value (undefined, null, "").
AvatarUrls == {"", "a.png"}
\* The userData of a join event.
JoinPayloads ==
    {[username |-> "alice", avatarUrl |-> ""],
     [username |-> "alice", avatarUrl |-> "a.png"],
     [username |-> "bob", avatarUrl |-> ""]}
Scores == 0..MaxScore
Times == 0..MaxTime
RoundNumbers == {1, 2, 3}
\* The data of a game_complete event.
GameTotals == {[totalScore |-> MaxScore, totalTime |-> MaxTime]}

\* The data of an update_progress event: any partial set of profile fields.
ProgressPayloads ==
    {[score |-> k] : k \in Scores}
      \cup {[status |-> "Round 1", timeTaken |-> t] : t \in Times}
      \cup {[username |-> "bob"]}

VARIABLES
    configured,        \* isSupabaseConfigured(): fixed at process start
    now,               \* the last value Date.now() returned
    nextUuid,          \* the next gen_random_uuid() of the store
    game_sessions,     \* the store's table: row id -> row
    connected,         \* sockets with a live connection
    closed,            \* sockets that have disconnected
    socketPlayers,     \* Map socket.id -> playerKey
    persistentPlayers, \* Map playerKey -> profile, in insertion order
    playerSessions,    \* Map playerKey -> session id
    pendingJoins,      \* per name: join handlers suspended at await createSession
    lastBroadcast,     \* payload of the last leaderboard_update emitted
    acks,              \* session_created messages emitted so far
    createCalls,       \* createSession invocations per player name
    scoreSum,          \* per name: sum of the scores of applied updates
    scoreLast,         \* per name: score of the last applied update with one
    joined,            \* names a join event has been handled for
    lastEvent,         \* what the last handler step did
    apiRequest,        \* the last REST request handled
    apiResponse,       \* the response to that request
    storeCalled,       \* whether the last handler step issued a store call
    events,            \* inbound client events handled so far
    budget             \* inbound client events the run may hold

vars == <<configured, now, nextUuid, game_sessions, connected, closed,
          socketPlayers, persistentPlayers, playerSessions, pendingJoins,
          lastBroadcast, acks, createCalls, scoreSum, scoreLast, joined,
          lastEvent, apiRequest, apiResponse, storeCalled, events, budget>>

\* ------------------------------------------------------------ session ids

LocalIdWithoutPrefix(t) == [prefix |-> "", n |-> t]
\* `local-${Date.now()}`
LocalId(t) == [prefix |-> "local-", n |-> t]
\* a UUID the store generated
DbId(k) == [prefix |-> "", n |-> k]
\* sessionId.startsWith('local-')
StartsWithLocal(id) == id.prefix = "local-"

\* -------------------------------------------------- Map (insertion order)

\* A Map is a sequence of entries [key, value] in insertion order.
MapHas(m, k) == \E i \in 1..Len(m) : m[i].key = k
MapIndex(m, k) == CHOOSE i \in 1..Len(m) : m[i].key = k
MapGet(m, k) == m[MapIndex(m, k)].value
MapSetAppendAlways(m, k, v) == Append(m, [key |-> k, value |-> v])
\* Map.prototype.set: replaces the value in place, or appends a new entry.
MapSet(m, k, v) ==
    IF MapHas(m, k)
    THEN [m EXCEPT ![MapIndex(m, k)] = [key |-> k, value |-> v]]
    ELSE Append(m, [key |-> k, value |-> v])
\* Array.from(map.values())
MapValues(m) == [i \in 1..Len(m) |-> m[i].value]

\* ------------------------------------------------------- the leaderboard

RECURSIVE InsertByScoreAscending(_, _)
InsertByScoreAscending(sorted, p) ==
    IF sorted = <<>> THEN <<p>>
    ELSE IF Head(sorted).score <= p.score
         THEN <<Head(sorted)>> \o InsertByScoreAscending(Tail(sorted), p)
         ELSE <<p>> \o sorted

\* Where a stable sort by (a, b) => b.score - a.score puts p among the
\* already sorted elements that preceded it: after every element whose
\* score is not smaller.
RECURSIVE InsertByScore(_, _)
InsertByScore(sorted, p) ==
    IF sorted = <<>> THEN <<p>>
    ELSE IF Head(sorted).score >= p.score
         THEN <<Head(sorted)>> \o InsertByScore(Tail(sorted), p)
         ELSE <<p>> \o sorted

RECURSIVE SortByScore(_)
SortByScore(ps) ==
    IF ps = <<>> THEN <<>>
    ELSE InsertByScore(SortByScore(SubSeq(ps, 1, Len(ps) - 1)), ps[Len(ps)])

\* .map((p, index) => ({ ...p, rank: index + 1 }))
WithRank(ps) == [i \in 1..Len(ps) |-> ("rank" :> i) @@ ps[i]]

LeaderboardWithoutLatest(m) ==
    WithRank(SortByScore(MapValues(SubSeq(m, 1, Len(m) - 1))))
\* The payload broadcastLeaderboard emits for the ScoreBoard m.
Leaderboard(m) == WithRank(SortByScore(MapValues(m)))

\* ---------------------------------------------------------------- profiles

NewPlayer(u, av) ==
    [username |-> u, avatarUrl |-> av, score |-> 0,
     status |-> "Just Joined", isBot |-> FALSE]

JoinedPlayerResetting(m, u, av) == NewPlayer(u, av)
\* The profile a join stores: the existing one, or a new one; a truthy
\* avatarUrl overwrites the stored one.
JoinedPlayer(m, u, av) ==
    LET player == IF MapHas(m, u) THEN MapGet(m, u) ELSE NewPlayer(u, av)
    IN  IF av # "" THEN [player EXCEPT !.avatarUrl = av] ELSE player

MergeAdding(player, data) ==
    IF "score" \in DOMAIN data
    THEN [(data @@ player) EXCEPT !.score = player.score + data.score]
    ELSE data @@ player
\* { ...player, ...data }
Merge(player, data) == data @@ player

NoEvent ==
    [op |-> "none", bound |-> FALSE, emitted |-> FALSE, gateway |-> "none"]

\* The process after start-up, about to handle at most b client events.
Start(b) ==
    /\ configured \in BOOLEAN
    /\ now = 0
    /\ nextUuid = 1
    /\ game_sessions = <<>>
    /\ connected = {}
    /\ closed = {}
    /\ socketPlayers = <<>>
    /\ persistentPlayers = <<>>
    /\ playerSessions = <<>>
    /\ pendingJoins = [u \in Usernames |-> 0]
    /\ lastBroadcast = <<>>
    /\ acks = {}
    /\ createCalls = [u \in Usernames |-> 0]
    /\ scoreSum = [u \in Usernames |-> 0]
    /\ scoreLast = [u \in Usernames |-> 0]
    /\ joined = {}
    /\ lastEvent = NoEvent
    /\ apiRequest = [op |-> "none"]
    /\ apiResponse = [status |-> 0]
    /\ storeCalled = FALSE
    /\ events = 0
    /\ budget = b

Init == Start(MaxEvents)

\* ------------------------------------------------------------ live server

\* What one handler step did: the event handled, whether its socket was
\* bound to a player, whether a leaderboard_update was emitted, and which
\* method of the service was invoked.
Event(op, bound, emitted, gateway) ==
    [op |-> op, bound |-> bound, emitted |-> emitted, gateway |-> gateway]

\* The row the first service's createSession inserts; the columns it does
\* not name take the schema's defaults.
InsertedRow(playerName) ==
    [player_name |-> playerName, rounds |-> {}, total_score |-> 0,
     total_time |-> 0, completed |-> FALSE]

Min(a, b) == IF a <= b THEN a ELSE b

\* Date.now(): never smaller than the last value read.
ClockReadings == now..Min(now + 1, MaxClock)

MapDelete(f, k) == [x \in (DOMAIN f) \ {k} |-> f[x]]

\* io.on("connection"): the new socket gets a snapshot (sent to everyone).
Connection(s) ==
    /\ s \notin connected \cup closed
    /\ \A i \in 1..Len(SocketOrder) :
         SocketOrder[i] = s =>
           \A j \in 1..(i - 1) : SocketOrder[j] \in connected \cup closed
    /\ connected' = connected \cup {s}
    /\ lastBroadcast' = Leaderboard(persistentPlayers)
    /\ lastEvent' = Event("connection", FALSE, TRUE, "none")
    /\ UNCHANGED <<configured, budget, now, nextUuid, game_sessions, closed,
                   socketPlayers, persistentPlayers, playerSessions,
                   pendingJoins, acks, createCalls, scoreSum, scoreLast,
                   joined, apiRequest,
                   apiResponse, events>>
    /\ storeCalled' = FALSE

\* !playerSessions.has(playerKey)
JoinNeedsSession(sessions, u) == u \notin DOMAIN sessions

\* socket.on("join"), up to the await of createSession or, when a session
\* id is already remembered, to the end of the handler.  With the store
\* unconfigured createSession returns without any I/O, so the handler's
\* continuation runs as a microtask before any other event is delivered:
\* the whole handler is one step.  With the store configured the handler
\* stays suspended until the insert's response arrives (JoinResolved).
Join(s, u, av) ==
    /\ events < budget
    /\ s \in connected
    /\ events' = events + 1
    /\ LET pp == MapSet(persistentPlayers, u,
                        JoinedPlayer(persistentPlayers, u, av))
       IN  /\ persistentPlayers' = pp
           /\ socketPlayers' = (s :> u) @@ socketPlayers
           /\ joined' = joined \cup {u}
           /\ IF ~JoinNeedsSession(playerSessions, u)
              THEN /\ acks' = acks \cup
                        {[key |-> u, sessionId |-> playerSessions[u]]}
                   /\ lastBroadcast' = Leaderboard(pp)
                   /\ lastEvent' = Event("join", TRUE, TRUE, "none")
                   /\ UNCHANGED <<playerSessions, pendingJoins, createCalls, now>>
              ELSE /\ createCalls' = [createCalls EXCEPT ![u] = @ + 1]
                   /\ IF configured
                      THEN /\ pendingJoins' = [pendingJoins EXCEPT ![u] = @ + 1]
                           /\ lastEvent' = Event("join", TRUE, FALSE, "createSession")
                           /\ UNCHANGED <<playerSessions, acks, lastBroadcast, now>>
                      ELSE \E t \in ClockReadings :
                           /\ now' = t
                           /\ playerSessions' = (u :> LocalId(t)) @@ playerSessions
                           /\ acks' = acks \cup
                                {[key |-> u, sessionId |-> LocalId(t)]}
                           /\ lastBroadcast' = Leaderboard(pp)
                           /\ lastEvent' = Event("join", TRUE, TRUE, "createSession")
                           /\ UNCHANGED pendingJoins
    /\ UNCHANGED <<configured, budget, nextUuid, game_sessions, connected, closed,
                   scoreSum, scoreLast, apiRequest,
                   apiResponse>>
    /\ storeCalled' = (JoinNeedsSession(playerSessions, u) /\ configured)

\* The rest of the join handler, once the store has answered the insert of
\* createSession: with a row (ok) or with an error, which createSession
\* catches and turns into a local id.
JoinResolved(u, ok) ==
    /\ pendingJoins[u] > 0
    /\ pendingJoins' = [pendingJoins EXCEPT ![u] = @ - 1]
    /\ \E t \in ClockReadings :
         LET id == IF ok THEN DbId(nextUuid) ELSE LocalId(t)
         IN  /\ now' = IF ok THEN now ELSE t
             /\ nextUuid' = IF ok THEN nextUuid + 1 ELSE nextUuid
             /\ game_sessions' =
                  IF ok THEN (nextUuid :> InsertedRow(u)) @@ game_sessions
                        ELSE game_sessions
             /\ playerSessions' = (u :> id) @@ playerSessions
             /\ acks' = acks \cup {[key |-> u, sessionId |-> id]}
    /\ lastBroadcast' = Leaderboard(persistentPlayers)
    /\ lastEvent' = Event("join_resolved", TRUE, TRUE, "none")
    /\ UNCHANGED <<configured, budget, connected, closed, socketPlayers,
                   persistentPlayers, createCalls, scoreSum, scoreLast,
                   joined, apiRequest,
                   apiResponse, events>>
    /\ storeCalled' = FALSE

SocketPlayerDefaulting(bindings, s) ==
    IF s \in DOMAIN bindings THEN bindings[s] ELSE "alice"
\* socketPlayers.get(socket.id): the bound name, or a falsy value ("" here)
\* for a socket without a binding.
SocketPlayer(bindings, s) ==
    IF s \in DOMAIN bindings THEN bindings[s] ELSE ""

\* socket.on("update_progress")
UpdateProgress(s, data) ==
    /\ events < budget
    /\ s \in connected
    /\ events' = events + 1
    /\ IF SocketPlayer(socketPlayers, s) # ""
          /\ MapHas(persistentPlayers, SocketPlayer(socketPlayers, s))
       THEN LET key == SocketPlayer(socketPlayers, s)
                pp == MapSet(persistentPlayers, key,
                             Merge(MapGet(persistentPlayers, key), data))
            IN  /\ persistentPlayers' = pp
                /\ lastBroadcast' = Leaderboard(pp)
                /\ scoreSum' = IF "score" \in DOMAIN data
                               THEN [scoreSum EXCEPT ![key] = @ + data.score]
                               ELSE scoreSum
                /\ scoreLast' = IF "score" \in DOMAIN data
                                THEN [scoreLast EXCEPT ![key] = data.score]
                                ELSE scoreLast
                /\ lastEvent' = Event("update_progress", s \in DOMAIN socketPlayers,
                                       TRUE, "none")
       ELSE /\ lastEvent' = Event("update_progress", s \in DOMAIN socketPlayers,
                                   FALSE, "none")
            /\ UNCHANGED <<persistentPlayers, lastBroadcast, scoreSum, scoreLast>>
    /\ UNCHANGED <<configured, budget, now, nextUuid, game_sessions, connected, closed,
                   socketPlayers, playerSessions, pendingJoins, acks,
                   createCalls, joined, apiRequest,
                   apiResponse>>
    /\ storeCalled' = FALSE

SkipsStoreWhenUnconfigured(id) == ~configured
\* !isSupabaseConfigured() || sessionId.startsWith('local-'): the guard
\* every method of both services that takes a session id starts with; it
\* returns null (false for the round saves) without a store call.
SkipsStore(id) == ~configured \/ StartsWithLocal(id)

\* The first service's updateRoundData: no store call without a configured
\* store or for a local id; otherwise the round's columns are written,
\* unless the store answers with an error (no row with that id is one).
UpdateRoundData(rows, id, roundNumber, ok) ==
    IF SkipsStore(id) \/ ~ok \/ id.n \notin DOMAIN rows
    THEN rows
    ELSE [rows EXCEPT ![id.n].rounds = @ \cup {roundNumber}]

\* The first service's completeSession.
CompleteSession(rows, id, totalScore, totalTime, ok) ==
    IF SkipsStore(id) \/ ~ok \/ id.n \notin DOMAIN rows
    THEN rows
    ELSE [rows EXCEPT ![id.n].total_score = totalScore,
                      ![id.n].total_time = totalTime,
                      ![id.n].completed = TRUE]

\* socket.on("round_complete")
RoundComplete(s, roundNumber, ok) ==
    /\ events < budget
    /\ s \in connected
    /\ events' = events + 1
    /\ IF s \in DOMAIN socketPlayers /\ socketPlayers[s] \in DOMAIN playerSessions
       THEN LET id == playerSessions[socketPlayers[s]]
            IN  /\ game_sessions' = UpdateRoundData(game_sessions, id, roundNumber, ok)
                /\ lastEvent' = Event("round_complete", TRUE, FALSE, "updateRoundData")
       ELSE /\ lastEvent' = Event("round_complete", s \in DOMAIN socketPlayers, FALSE, "none")
            /\ UNCHANGED game_sessions
    /\ UNCHANGED <<configured, budget, now, nextUuid, connected, closed, socketPlayers,
                   persistentPlayers, playerSessions, pendingJoins,
                   lastBroadcast, acks, createCalls, scoreSum, scoreLast,
                   joined, apiRequest,
                   apiResponse>>
    /\ storeCalled' = (/\ s \in DOMAIN socketPlayers
                       /\ socketPlayers[s] \in DOMAIN playerSessions
                       /\ ~SkipsStore(playerSessions[socketPlayers[s]]))

\* socket.on("game_complete")
GameComplete(s, totalScore, totalTime, ok) ==
    /\ events < budget
    /\ s \in connected
    /\ events' = events + 1
    /\ IF s \in DOMAIN socketPlayers /\ socketPlayers[s] \in DOMAIN playerSessions
       THEN LET id == playerSessions[socketPlayers[s]]
            IN  /\ game_sessions' = CompleteSession(game_sessions, id, totalScore,
                                                    totalTime, ok)
                /\ lastEvent' = Event("game_complete", TRUE, FALSE, "completeSession")
       ELSE /\ lastEvent' = Event("game_complete", s \in DOMAIN socketPlayers, FALSE, "none")
            /\ UNCHANGED game_sessions
    /\ UNCHANGED <<configured, budget, now, nextUuid, connected, closed, socketPlayers,
                   persistentPlayers, playerSessions, pendingJoins,
                   lastBroadcast, acks, createCalls, scoreSum, scoreLast,
                   joined, apiRequest,
                   apiResponse>>
    /\ storeCalled' = (/\ s \in DOMAIN socketPlayers
                       /\ socketPlayers[s] \in DOMAIN playerSessions
                       /\ ~SkipsStore(playerSessions[socketPlayers[s]]))

DisconnectDroppingPlayer(m, key) ==
    SelectSeq(m, LAMBDA e : e.key # key)
\* What disconnect leaves of the ScoreBoard: all of it.
DisconnectKeeps(m, key) == m

\* socket.on("disconnect")
Disconnect(s) ==
    /\ s \in connected
    /\ connected' = connected \ {s}
    /\ closed' = closed \cup {s}
    /\ IF s \in DOMAIN socketPlayers
       THEN /\ socketPlayers' = MapDelete(socketPlayers, s)
            /\ persistentPlayers' = DisconnectKeeps(persistentPlayers, socketPlayers[s])
            /\ lastEvent' = Event("disconnect", TRUE, FALSE, "none")
       ELSE /\ lastEvent' = Event("disconnect", FALSE, FALSE, "none")
            /\ UNCHANGED <<socketPlayers, persistentPlayers>>
    /\ UNCHANGED <<configured, budget, now, nextUuid, game_sessions, playerSessions,
                   pendingJoins, lastBroadcast, acks, createCalls, scoreSum,
                   scoreLast, joined, apiRequest,
                   apiResponse, events>>
    /\ storeCalled' = FALSE

Next ==
    \/ \E s \in Sockets : Connection(s)
    \/ \E s \in Sockets, userData \in JoinPayloads :
          Join(s, userData.username, userData.avatarUrl)
    \/ \E u \in Usernames, ok \in BOOLEAN : JoinResolved(u, ok)
    \/ \E s \in Sockets, data \in ProgressPayloads : UpdateProgress(s, data)
    \/ \E s \in Sockets, r \in RoundNumbers, ok \in BOOLEAN : RoundComplete(s, r, ok)
    \/ \E s \in Sockets, tot \in GameTotals, ok \in BOOLEAN :
          GameComplete(s, tot.totalScore, tot.totalTime, ok)
    \/ \E s \in Sockets : Disconnect(s)

Spec == Init /\ [][Next]_vars

\* ------------------------------------------------------------- API server

\* :sessionId of a request: a stored row's id, an id no row has, a local id.
RequestIds == {DbId(1), DbId(2), LocalId(0)}
\* playerName of a create request; "" stands for a missing name.
PlayerNames == {"", "alice"}
\* The body of a generic update request.
UpdatePatches ==
    {[status |-> "Playing"], [status |-> "Finished"], [total_score |-> MaxScore]}

\* A request body that carries none of the fields its handler reads: each
\* destructured field is undefined.
EmptyBody == [f \in {} |-> 0]

\* The bodies of the three round saves.
Round1Bodies ==
    {[subRoundsData |-> "round1", totalScore |-> sc, totalTime |-> tm] :
        sc \in Scores, tm \in Times} \cup {EmptyBody}
Round2Bodies ==
    {[roundData |-> "round2", roundScore |-> sc, roundTime |-> tm,
      previousTotalScore |-> prev] :
        sc \in Scores, tm \in Times, prev \in Scores} \cup {EmptyBody}
Round3Bodies ==
    {[roundData |-> "round3", roundScore |-> sc, roundTime |-> MaxTime,
      previousTotalScore |-> prev, totalGameTime |-> total] :
        sc \in Scores, prev \in Scores, total \in Times} \cup {EmptyBody}

\* ?limit= of a leaderboard request; 0 stands for every value parseInt and
\* || turn into the default: no parameter, a non-number, "0".
LimitQueries == {0, 1}
\* parseInt(req.query.limit) || 50
DefaultLimit == 50
HandlerLimit(q) == IF q = 0 THEN DefaultLimit ELSE q

\* `https://api.dicebear.com/7.x/bottts/svg?seed=${playerName}`
PlaceholderAvatar(playerName) ==
    "https://api.dicebear.com/7.x/bottts/svg?seed=" \o playerName

\* The row the second service's createSession inserts.  A column that holds
\* NULL is a field the row does not have.
NewSessionRow(playerName, avatarUrl) ==
    [player_name |-> playerName,
     avatar_url |-> IF avatarUrl # "" THEN avatarUrl
                    ELSE PlaceholderAvatar(playerName),
     total_score |-> 0, rounds_completed |-> 0, current_round |-> 1,
     status |-> "Playing",
     round1_data |-> "[]", round2_data |-> "[]", round3_data |-> "[]"]

\* .update(patch).eq('id', sessionId): every row with that id takes the
\* patch's columns, the columns in nulls become NULL; no row with that id
\* is no error.
StoreUpdate(rows, id, patch, nulls) ==
    IF id.prefix = "" /\ id.n \in DOMAIN rows
    THEN [rows EXCEPT ![id.n] =
            [c \in (DOMAIN (patch @@ @)) \ nulls |-> (patch @@ @)[c]]]
    ELSE rows

\* .single() of a select that returned no row is an error.
RowExists(rows, id) == id.prefix = "" /\ id.n \in DOMAIN rows

\* One key of an update object: JSON.stringify drops a key whose value is
\* undefined.
Column(col, body, field) ==
    IF field \in DOMAIN body THEN col :> body[field] ELSE EmptyBody

\* previousTotalScore + roundScore is NaN when one of them is undefined,
\* and JSON.stringify writes NaN as null.
NewTotalScore(body) ==
    IF {"previousTotalScore", "roundScore"} \subseteq DOMAIN body
    THEN "total_score" :> (body.previousTotalScore + body.roundScore)
    ELSE EmptyBody

NewTotalNulls(body) ==
    IF {"previousTotalScore", "roundScore"} \subseteq DOMAIN body
    THEN {} ELSE {"total_score"}

SaveRound1Patch(body) ==
    Column("round1_data", body, "subRoundsData")
      @@ Column("round1_score", body, "totalScore")
      @@ Column("round1_time", body, "totalTime")
      @@ Column("total_score", body, "totalScore")
      @@ [rounds_completed |-> 1, current_round |-> 2, status |-> "Round 2"]

SaveRound2PatchIgnoringPrevious(body) ==
    Column("round2_data", body, "roundData")
      @@ Column("round2_score", body, "roundScore")
      @@ Column("round2_time", body, "roundTime")
      @@ Column("total_score", body, "roundScore")
      @@ [rounds_completed |-> 2, current_round |-> 3, status |-> "Round 3"]

SaveRound2Patch(body) ==
    Column("round2_data", body, "roundData")
      @@ Column("round2_score", body, "roundScore")
      @@ Column("round2_time", body, "roundTime")
      @@ NewTotalScore(body)
      @@ [rounds_completed |-> 2, current_round |-> 3, status |-> "Round 3"]

SaveRound3Patch(body) ==
    Column("round3_data", body, "roundData")
      @@ Column("round3_score", body, "roundScore")
      @@ Column("round3_time", body, "roundTime")
      @@ NewTotalScore(body)
      @@ Column("total_time", body, "totalGameTime")
      @@ [rounds_completed |-> 3, current_round |-> 3, status |-> "Finished"]

\* saveRound1Data / saveRound2Data / saveRound3Data: false without a store
\* call, false when the store answers with an error, true otherwise.
SaveRound(id, patch, nulls, ok) ==
    /\ game_sessions' = IF SkipsStore(id) \/ ~ok THEN game_sessions
                        ELSE StoreUpdate(game_sessions, id, patch, nulls)
    /\ apiResponse' = [status |-> 200, success |-> ~SkipsStore(id) /\ ok]
    /\ storeCalled' = ~SkipsStore(id)

\* A request as its handler sees it, and whether the store answers it
\* without an error.
Request(op, body, reachable) ==
    [op |-> op, body |-> body, reachable |-> reachable]
\* A request on one session.
RequestOn(op, id, body, reachable) ==
    [op |-> op, id |-> id, body |-> body, reachable |-> reachable]

apiFrame ==
    UNCHANGED <<configured, budget, connected, closed, socketPlayers,
                persistentPlayers, playerSessions, pendingJoins, lastBroadcast,
                acks, createCalls, scoreSum, scoreLast, joined, lastEvent>>

\* POST /api/sessions
ApiCreateSession(playerName, avatarUrl, ok) ==
    /\ events < budget
    /\ events' = events + 1
    /\ apiRequest' = Request("createSession",
                             [playerName |-> playerName, avatarUrl |-> avatarUrl], ok)
    /\ IF playerName = ""
       THEN /\ apiResponse' = [status |-> 400, success |-> FALSE]
            /\ UNCHANGED <<game_sessions, nextUuid, now>>
       ELSE IF configured /\ ok
       THEN /\ game_sessions' =
                 (nextUuid :> NewSessionRow(playerName, avatarUrl)) @@ game_sessions
            /\ nextUuid' = nextUuid + 1
            /\ apiResponse' = [status |-> 200, success |-> TRUE,
                               session |-> DbId(nextUuid)]
            /\ UNCHANGED now
       ELSE \E t \in ClockReadings :
            /\ now' = t
            /\ apiResponse' = [status |-> 200, success |-> TRUE,
                               session |-> LocalId(t)]
            /\ UNCHANGED <<game_sessions, nextUuid>>
    /\ apiFrame
    /\ storeCalled' = (playerName # "" /\ configured)

\* The second service's getSession: null without a store call, null when
\* the store answers with an error or with no row, the row otherwise.
GetSessionFinds(rows, id, ok) ==
    ~SkipsStore(id) /\ ok /\ RowExists(rows, id)

\* GET /api/sessions/:sessionId
ApiGetSession(id, ok) ==
    /\ events < budget
    /\ events' = events + 1
    /\ apiRequest' = RequestOn("getSession", id, EmptyBody, ok)
    /\ apiResponse' =
         IF GetSessionFinds(game_sessions, id, ok)
         THEN [status |-> 200, success |-> TRUE, session |-> game_sessions[id.n]]
         ELSE [status |-> 404, error |-> "Session not found"]
    /\ UNCHANGED <<game_sessions, nextUuid, now>>
    /\ apiFrame
    /\ storeCalled' = ~SkipsStore(id)

\* PUT /api/sessions/:sessionId
ApiUpdateSession(id, updates, ok) ==
    /\ events < budget
    /\ events' = events + 1
    /\ apiRequest' = RequestOn("updateSession", id, updates, ok)
    /\ IF SkipsStore(id) \/ ~ok \/ ~RowExists(game_sessions, id)
       THEN /\ apiResponse' = [status |-> 200, success |-> TRUE, found |-> FALSE]
            /\ UNCHANGED <<game_sessions, now>>
       ELSE \E t \in ClockReadings :
            /\ now' = t
            /\ game_sessions' =
                 StoreUpdate(game_sessions, id, updates @@ [updated_at |-> t], {})
            /\ apiResponse' = [status |-> 200, success |-> TRUE, found |-> TRUE]
    /\ UNCHANGED nextUuid
    /\ apiFrame
    /\ storeCalled' = ~SkipsStore(id)

\* PUT /api/sessions/:sessionId/round1
ApiSaveRound1(id, body, ok) ==
    /\ events < budget
    /\ events' = events + 1
    /\ apiRequest' = RequestOn("round1", id, body, ok)
    /\ SaveRound(id, SaveRound1Patch(body), {}, ok)
    /\ UNCHANGED <<nextUuid, now>>
    /\ apiFrame

\* PUT /api/sessions/:sessionId/round2
ApiSaveRound2(id, body, ok) ==
    /\ events < budget
    /\ events' = events + 1
    /\ apiRequest' = RequestOn("round2", id, body, ok)
    /\ SaveRound(id, SaveRound2Patch(body), NewTotalNulls(body), ok)
    /\ UNCHANGED <<nextUuid, now>>
    /\ apiFrame

\* PUT /api/sessions/:sessionId/round3
ApiSaveRound3(id, body, ok) ==
    /\ events < budget
    /\ events' = events + 1
    /\ apiRequest' = RequestOn("round3", id, body, ok)
    /\ SaveRound(id, SaveRound3Patch(body), NewTotalNulls(body), ok)
    /\ UNCHANGED <<nextUuid, now>>
    /\ apiFrame

\* A row as a select returns it: with its id.
Selected(rows, k) == ("id" :> DbId(k)) @@ rows[k]

\* .order('total_score', { ascending: false }): descending, and the store's
\* default for a descending order puts NULL first.
\* .order('total_time', { ascending: true, nullsFirst: false }): ascending,
\* NULL last.  TRUE when row a may come before row b.
MayPrecede(a, b) ==
    IF "total_score" \notin DOMAIN a THEN
        \/ "total_score" \in DOMAIN b
        \/ "total_time" \notin DOMAIN b
        \/ ("total_time" \in DOMAIN a /\ a.total_time <= b.total_time)
    ELSE IF "total_score" \notin DOMAIN b THEN FALSE
    ELSE IF a.total_score # b.total_score THEN a.total_score > b.total_score
    ELSE \/ "total_time" \notin DOMAIN b
         \/ ("total_time" \in DOMAIN a /\ a.total_time <= b.total_time)

\* The orders in which the store may return all rows: rows the two sort
\* keys do not tell apart come in an order the store chooses.
RowOrders(rows) ==
    {o \in [1..Cardinality(DOMAIN rows) -> DOMAIN rows] :
        /\ \A i, j \in DOMAIN o : i # j => o[i] # o[j]
        /\ \A i, j \in DOMAIN o : i < j => MayPrecede(rows[o[i]], rows[o[j]])}

\* The second service's getLeaderboard: no filter, two sort keys, a limit.
GetLeaderboard(rows, o, limit) ==
    [i \in 1..Min(limit, Len(o)) |-> Selected(rows, o[i])]

\* GET /api/leaderboard
ApiGetLeaderboard(q, ok) ==
    /\ events < budget
    /\ events' = events + 1
    /\ apiRequest' = Request("leaderboard", [limit |-> HandlerLimit(q)], ok)
    /\ IF ~configured \/ ~ok
       THEN apiResponse' = [status |-> 200, success |-> TRUE, leaderboard |-> <<>>]
       ELSE \E o \in RowOrders(game_sessions) :
              apiResponse' = [status |-> 200, success |-> TRUE,
                              leaderboard |->
                                GetLeaderboard(game_sessions, o, HandlerLimit(q))]
    /\ UNCHANGED <<game_sessions, nextUuid, now>>
    /\ apiFrame
    /\ storeCalled' = configured

StoreNext ==
    \/ \E playerName \in PlayerNames, av \in AvatarUrls, ok \in BOOLEAN :
          ApiCreateSession(playerName, av, ok)
    \/ \E id \in RequestIds, ok \in BOOLEAN : ApiGetSession(id, ok)
    \/ \E id \in RequestIds, updates \in UpdatePatches, ok \in BOOLEAN :
          ApiUpdateSession(id, updates, ok)
    \/ \E id \in RequestIds, body \in Round1Bodies, ok \in BOOLEAN :
          ApiSaveRound1(id, body, ok)
    \/ \E id \in RequestIds, body \in Round2Bodies, ok \in BOOLEAN :
          ApiSaveRound2(id, body, ok)
    \/ \E id \in RequestIds, body \in Round3Bodies, ok \in BOOLEAN :
          ApiSaveRound3(id, body, ok)
    \/ \E q \in LimitQueries, ok \in BOOLEAN : ApiGetLeaderboard(q, ok)

\* A game is a create and three round saves.
StoreInit == Start(MaxEvents + 1)

StoreSpec == StoreInit /\ [][StoreNext]_vars

\* The live server run one client event longer: two players who both report
\* progress need two joins and two updates.
RankInit == Start(MaxEvents + 1)

RankSpec == RankInit /\ [][Next]_vars

\* ------------------------------------------- live server, REST routes

\* parseInt(req.query.limit) || 10
DefaultRestLimit == 10
RestLimit(q) == IF q = 0 THEN DefaultRestLimit ELSE q

restFrameClearing ==
    /\ persistentPlayers' = <<>>
    /\ UNCHANGED <<configured, budget, connected, closed, socketPlayers,
                   playerSessions, pendingJoins, lastBroadcast, acks,
                   scoreSum, scoreLast, joined>>
\* What no REST route of the live server refers to.
restFrame ==
    UNCHANGED <<configured, budget, connected, closed, socketPlayers,
                persistentPlayers, playerSessions, pendingJoins, lastBroadcast,
                acks, scoreSum, scoreLast, joined>>

\* POST /api/sessions
RestCreateSession(playerName, ok) ==
    /\ events < budget
    /\ events' = events + 1
    /\ apiRequest' = Request("createSession", [playerName |-> playerName], ok)
    /\ IF playerName = ""
       THEN /\ apiResponse' = [status |-> 400, error |-> "Player name is required"]
            /\ lastEvent' = Event("rest", FALSE, FALSE, "none")
            /\ UNCHANGED <<game_sessions, nextUuid, now, createCalls>>
       ELSE /\ lastEvent' = Event("rest", FALSE, FALSE, "createSession")
            /\ createCalls' = [createCalls EXCEPT ![playerName] = @ + 1]
            /\ IF configured /\ ok
               THEN /\ game_sessions' =
                         (nextUuid :> InsertedRow(playerName)) @@ game_sessions
                    /\ nextUuid' = nextUuid + 1
                    /\ apiResponse' = [status |-> 200, success |-> TRUE,
                                       session |-> DbId(nextUuid)]
                    /\ UNCHANGED now
               ELSE \E t \in ClockReadings :
                    /\ now' = t
                    /\ apiResponse' = [status |-> 200, success |-> TRUE,
                                       session |-> LocalId(t)]
                    /\ UNCHANGED <<game_sessions, nextUuid>>
    /\ restFrame
    /\ storeCalled' = (playerName # "" /\ configured)

\* PUT /api/sessions/:sessionId/rounds/:roundNumber
RestUpdateRound(id, roundNumber, ok) ==
    /\ events < budget
    /\ events' = events + 1
    /\ apiRequest' = RequestOn("updateRound", id, [roundNumber |-> roundNumber], ok)
    /\ game_sessions' = UpdateRoundData(game_sessions, id, roundNumber, ok)
    /\ apiResponse' = [status |-> 200, success |-> TRUE,
                       found |-> ~SkipsStore(id) /\ ok /\ RowExists(game_sessions, id)]
    /\ lastEvent' = Event("rest", FALSE, FALSE, "updateRoundData")
    /\ UNCHANGED <<nextUuid, now, createCalls>>
    /\ restFrame
    /\ storeCalled' = ~SkipsStore(id)

\* PUT /api/sessions/:sessionId/complete
RestCompleteSession(id, finalData, ok) ==
    /\ events < budget
    /\ events' = events + 1
    /\ apiRequest' = RequestOn("complete", id, finalData, ok)
    /\ game_sessions' = CompleteSession(game_sessions, id, finalData.totalScore,
                                        finalData.totalTime, ok)
    /\ apiResponse' = [status |-> 200, success |-> TRUE,
                       found |-> ~SkipsStore(id) /\ ok /\ RowExists(game_sessions, id)]
    /\ lastEvent' = Event("rest", FALSE, FALSE, "completeSession")
    /\ UNCHANGED <<nextUuid, now, createCalls>>
    /\ restFrame
    /\ storeCalled' = ~SkipsStore(id)

\* .eq('completed', true)
CompletedRows(rows) == [k \in {j \in DOMAIN rows : rows[j].completed} |-> rows[k]]

\* .select('player_name, total_score, total_time, created_at')
LeaderboardColumns(row) ==
    [player_name |-> row.player_name, total_score |-> row.total_score,
     total_time |-> row.total_time]

\* GET /api/leaderboard, with the first service's getLeaderboard
RestGetLeaderboard(q, ok) ==
    /\ events < budget
    /\ events' = events + 1
    /\ apiRequest' = Request("leaderboard", [limit |-> RestLimit(q)], ok)
    /\ IF ~configured \/ ~ok
       THEN apiResponse' = [status |-> 200, success |-> TRUE, leaderboard |-> <<>>]
       ELSE \E o \in RowOrders(CompletedRows(game_sessions)) :
              apiResponse' =
                [status |-> 200, success |-> TRUE,
                 leaderboard |->
                   [i \in 1..Min(RestLimit(q), Len(o)) |->
                       LeaderboardColumns(game_sessions[o[i]])]]
    /\ lastEvent' = Event("rest", FALSE, FALSE, "getLeaderboard")
    /\ UNCHANGED <<game_sessions, nextUuid, now, createCalls>>
    /\ restFrame
    /\ storeCalled' = configured

\* GET /api/sessions/:sessionId, with the first service's getSession
RestGetSession(id, ok) ==
    /\ events < budget
    /\ events' = events + 1
    /\ apiRequest' = RequestOn("getSession", id, EmptyBody, ok)
    /\ apiResponse' =
         IF GetSessionFinds(game_sessions, id, ok)
         THEN [status |-> 200, success |-> TRUE, session |-> game_sessions[id.n]]
         ELSE [status |-> 404, error |-> "Session not found"]
    /\ lastEvent' = Event("rest", FALSE, FALSE, "getSession")
    /\ UNCHANGED <<game_sessions, nextUuid, now, createCalls>>
    /\ restFrame
    /\ storeCalled' = ~SkipsStore(id)

\* The first service's getPlayerSessions: the ids of the player's rows,
\* newest first; none without a store or when the store answers with an
\* error.
PlayerSessionIds(rows, playerName, ok) ==
    IF ~configured \/ ~ok THEN <<>>
    ELSE LET ids == {k \in DOMAIN rows : rows[k].player_name = playerName}
         IN  CHOOSE o \in [1..Cardinality(ids) -> ids] :
                \A i, j \in DOMAIN o : i < j => o[i] > o[j]

\* GET /api/players/:playerName/sessions
RestGetPlayerSessions(playerName, ok) ==
    /\ events < budget
    /\ events' = events + 1
    /\ apiRequest' = Request("playerSessions", [playerName |-> playerName], ok)
    /\ apiResponse' = [status |-> 200, success |-> TRUE,
                       sessions |-> PlayerSessionIds(game_sessions, playerName, ok)]
    /\ lastEvent' = Event("rest", FALSE, FALSE, "getPlayerSessions")
    /\ UNCHANGED <<game_sessions, nextUuid, now, createCalls>>
    /\ restFrame
    /\ storeCalled' = configured

RestNext ==
    \/ \E playerName \in PlayerNames, ok \in BOOLEAN : RestCreateSession(playerName, ok)
    \/ \E id \in RequestIds, r \in RoundNumbers, ok \in BOOLEAN :
          RestUpdateRound(id, r, ok)
    \/ \E id \in RequestIds, tot \in GameTotals, ok \in BOOLEAN :
          RestCompleteSession(id, tot, ok)
    \/ \E q \in LimitQueries, ok \in BOOLEAN : RestGetLeaderboard(q, ok)
    \/ \E id \in RequestIds, ok \in BOOLEAN : RestGetSession(id, ok)
    \/ \E playerName \in Usernames, ok \in BOOLEAN : RestGetPlayerSessions(playerName, ok)

ServerNext == Next \/ RestNext

\* The live server with its socket events and its REST routes.
ServerSpec == Init /\ [][ServerNext]_vars

\* ------------------------------------------------------------------ claims

Profile(u) == MapGet(persistentPlayers, u)
Known(u) == MapHas(persistentPlayers, u)

\* C1: createSession is invoked at most once per display name, and every
\* session_created acknowledgment for a name carries the same session id.
C1_OneSessionPerName ==
    /\ \A u \in Usernames : createCalls[u] <= 1
    /\ \A a, b \in acks : a.key = b.key => a.sessionId = b.sessionId

\* C2: the ScoreBoard holds exactly one profile per display name that has
\* joined, and a join step changes no field of an already known profile
\* other than its avatarUrl.
C2_KeysAreJoinedNames ==
    \A u \in Usernames :
        Cardinality({i \in 1..Len(persistentPlayers) : persistentPlayers[i].key = u})
            = IF u \in joined THEN 1 ELSE 0

C2_JoinKeepsProfile ==
    lastEvent'.op = "join" =>
        \A i \in 1..Len(persistentPlayers) :
            /\ i <= Len(persistentPlayers')
            /\ persistentPlayers'[i].key = persistentPlayers[i].key
            /\ DOMAIN persistentPlayers'[i].value = DOMAIN persistentPlayers[i].value
            /\ \A f \in (DOMAIN persistentPlayers[i].value) \ {"avatarUrl"} :
                   persistentPlayers'[i].value[f] = persistentPlayers[i].value[f]

C2_OneProfilePerName ==
    [] C2_KeysAreJoinedNames /\ [][C2_JoinKeepsProfile]_vars

\* A repeat join of the only known name, after that name scored and changed
\* status, with an avatar that was stored.
C2_Witness ==
    /\ lastEvent.op = "join"
    /\ Len(persistentPlayers) = 1
    /\ persistentPlayers[1].value.score > 0
    /\ persistentPlayers[1].value.avatarUrl = "a.png"

\* C3 as stated: a profile's score is the sum of the scores of the updates
\* applied to it.
C3_ScoreIsSumOfUpdates ==
    \A u \in Usernames : Known(u) => Profile(u).score = scoreSum[u]

\* C3 as amended: a profile's score is the score of the last update applied
\* to it that carried one (0 before any), and no join resets it.
C3_ScoreIsLastUpdate ==
    \A u \in Usernames : Known(u) => Profile(u).score = scoreLast[u]

\* Two scored updates have been applied to a name since it joined.
C3_Witness ==
    /\ lastEvent.op = "update_progress"
    /\ \E u \in Usernames :
         /\ Known(u)
         /\ scoreLast[u] > 0
         /\ scoreSum[u] > scoreLast[u]
         /\ Profile(u).score = scoreLast[u]

\* C4: a disconnect step removes the binding of the closed connection and
\* nothing else of the registry; a join under a known name after a
\* disconnect finds that name's profile with its score.
C4_DisconnectFrame ==
    /\ lastEvent'.op = "disconnect" =>
         /\ persistentPlayers' = persistentPlayers
         /\ playerSessions' = playerSessions
         /\ pendingJoins' = pendingJoins
         /\ \E s \in connected :
              /\ connected' = connected \ {s}
              /\ DOMAIN socketPlayers' = (DOMAIN socketPlayers) \ {s}
              /\ \A x \in DOMAIN socketPlayers' : socketPlayers'[x] = socketPlayers[x]
    /\ (lastEvent'.op = "join" /\ closed # {}) =>
         \A u \in Usernames :
            Known(u) =>
              /\ MapHas(persistentPlayers', u)
              /\ MapGet(persistentPlayers', u).score = Profile(u).score
              /\ MapGet(persistentPlayers', u).status = Profile(u).status

C4_DisconnectKeepsProfiles == [][C4_DisconnectFrame]_vars

\* The first connection has closed, and the second one has just joined
\* under a name that holds a score.
C4_Witness ==
    /\ lastEvent.op = "join"
    /\ closed = {SocketOrder[1]}
    /\ SocketOrder[2] \in DOMAIN socketPlayers
    /\ Known(socketPlayers[SocketOrder[2]])
    /\ Profile(socketPlayers[SocketOrder[2]]).score > 0

\* ---- C5

SortedByScoreDescending(lb) ==
    \A i \in 1..(Len(lb) - 1) : lb[i].score >= lb[i + 1].score

RanksContiguous(lb) == \A i \in 1..Len(lb) : lb[i].rank = i

\* Among neighbours of equal score that both report an elapsed time, the
\* shorter time comes first.
TiesByElapsedTime(lb) ==
    \A i \in 1..(Len(lb) - 1) :
        (/\ lb[i].score = lb[i + 1].score
         /\ "timeTaken" \in DOMAIN lb[i]
         /\ "timeTaken" \in DOMAIN lb[i + 1])
          => lb[i].timeTaken <= lb[i + 1].timeTaken

RECURSIVE ByScoreDown(_, _)
ByScoreDown(ps, v) ==
    IF v < 0 THEN <<>>
    ELSE SelectSeq(ps, LAMBDA q : q.score = v) \o ByScoreDown(ps, v - 1)

TopScore(ps) ==
    IF ps = <<>> THEN 0
    ELSE CHOOSE v \in {ps[i].score : i \in 1..Len(ps)} :
            \A i \in 1..Len(ps) : ps[i].score <= v

Unranked(lb) == [i \in 1..Len(lb) |-> [f \in (DOMAIN lb[i]) \ {"rank"} |-> lb[i][f]]]

C5_EmittedPayload ==
    lastEvent'.emitted =>
        /\ SortedByScoreDescending(lastBroadcast')
        /\ RanksContiguous(lastBroadcast')
        /\ Unranked(lastBroadcast') =
             ByScoreDown(MapValues(persistentPlayers'),
                         TopScore(MapValues(persistentPlayers')))

C6_JoinBroadcastsAtOnce ==
    lastEvent.op = "join" => lastEvent.emitted

\* C7: every round_complete or game_complete of a connection that has
\* joined leads to a call of the persistence service.
C7_NoCompletionDropped ==
    (lastEvent.op \in {"round_complete", "game_complete"} /\ lastEvent.bound)
        => lastEvent.gateway # "none"

\* C8: without a configured store, or when the insert fails, the join ends
\* with a "local-" session id that is acknowledged; the ScoreBoard and the
\* bindings are what the join left; an update_progress of a bound
\* connection is applied and broadcast.
C8_LocalIdsWithoutStore ==
    /\ ~configured =>
         \A u \in DOMAIN playerSessions : StartsWithLocal(playerSessions[u])
    /\ \A u \in DOMAIN playerSessions :
         /\ [key |-> u, sessionId |-> playerSessions[u]] \in acks
         /\ Known(u)
    /\ \A s \in DOMAIN socketPlayers : Known(socketPlayers[s])

C8_FallbackStep ==
    /\ (lastEvent'.op = "join" /\ ~configured) =>
         \E u \in joined' :
            /\ u \in DOMAIN playerSessions'
            /\ StartsWithLocal(playerSessions'[u])
            /\ pendingJoins' = pendingJoins
    /\ (lastEvent'.op = "join_resolved" /\ nextUuid' = nextUuid) =>
         /\ \E u \in Usernames :
              /\ pendingJoins[u] > 0
              /\ u \in DOMAIN playerSessions'
              /\ StartsWithLocal(playerSessions'[u])
              /\ [key |-> u, sessionId |-> playerSessions'[u]] \in acks'
         /\ persistentPlayers' = persistentPlayers
         /\ socketPlayers' = socketPlayers
    /\ (lastEvent'.op = "update_progress" /\ lastEvent'.bound) =>
         /\ lastEvent'.emitted
         /\ lastBroadcast' = Leaderboard(persistentPlayers')
         /\ Len(persistentPlayers') = Len(persistentPlayers)

C8_JoinSurvivesStoreFailure ==
    [] C8_LocalIdsWithoutStore /\ [][C8_FallbackStep]_vars

\* The insert of a join failed, the player holds a local id, and an update
\* of that player has just been applied and broadcast.
C8_Witness ==
    /\ configured
    /\ lastEvent.op = "update_progress"
    /\ lastEvent.emitted
    /\ \E s \in DOMAIN socketPlayers :
         /\ socketPlayers[s] \in DOMAIN playerSessions
         /\ StartsWithLocal(playerSessions[socketPlayers[s]])
         /\ Profile(socketPlayers[s]).score > 0
         /\ lastBroadcast = Leaderboard(persistentPlayers)

\* ---- C9, C10

StatusRank(status) ==
    CASE status = "Playing" -> 1
      [] status = "Round 2" -> 2
      [] status = "Round 3" -> 3
      [] status = "Finished" -> 4

\* C9: no call moves a session's status to an earlier one of
\* Playing -> Round 2 -> Round 3 -> Finished.
C9_StatusStep ==
    \A k \in DOMAIN game_sessions :
        StatusRank(game_sessions'[k].status) >= StatusRank(game_sessions[k].status)

C9_StatusOnlyAdvances == [][C9_StatusStep]_vars

\* C10: round N's data (N = 2, 3) is written only to a session whose status
\* has reached round N.
C10_RoundStep ==
    \A k \in DOMAIN game_sessions :
        /\ game_sessions'[k].round2_data # game_sessions[k].round2_data
             => StatusRank(game_sessions[k].status) >= 2
        /\ game_sessions'[k].round3_data # game_sessions[k].round3_data
             => StatusRank(game_sessions[k].status) >= 3

C10_RoundSavedInOrder == [][C10_RoundStep]_vars

\* ---- C11

\* A round's stored score; a round that was never saved counts 0.
StoredRoundScore(row, col) == IF col \in DOMAIN row THEN row[col] ELSE 0

StoredRoundScores(row) ==
    StoredRoundScore(row, "round1_score") + StoredRoundScore(row, "round2_score")
      + StoredRoundScore(row, "round3_score")

SaveOps == {"round1", "round2", "round3"}

\* C11: after every successful round save, the saved session's total_score
\* is the sum of its stored round scores.
C11_TotalStep ==
    (apiRequest'.op \in SaveOps /\ apiResponse'.success) =>
        \A k \in DOMAIN game_sessions' :
            apiRequest'.id = DbId(k) =>
                /\ "total_score" \in DOMAIN game_sessions'[k]
                /\ game_sessions'[k].total_score = StoredRoundScores(game_sessions'[k])

C11_TotalIsSumOfRounds == [][C11_TotalStep]_vars

\* ---- C12

\* The columns the claim names, after a save of the given round.
SavedAs(row, op, body) ==
    CASE op = "round1" ->
           /\ row.status = "Round 2"
           /\ row.rounds_completed = 1
           /\ row.current_round = 2
           /\ row.total_score = body.totalScore
      [] op = "round2" ->
           /\ row.status = "Round 3"
           /\ row.rounds_completed = 2
           /\ row.total_score = body.previousTotalScore + body.roundScore
      [] op = "round3" ->
           /\ row.status = "Finished"
           /\ row.rounds_completed = 3
           /\ row.total_score = body.previousTotalScore + body.roundScore
           /\ row.total_time = body.totalGameTime

C12_SaveStep ==
    (/\ apiRequest'.op \in SaveOps
     /\ configured
     /\ apiRequest'.reachable
     /\ ~StartsWithLocal(apiRequest'.id)
     /\ apiRequest'.body # EmptyBody) =>
        /\ apiResponse'.success
        /\ \A k \in DOMAIN game_sessions :
              apiRequest'.id = DbId(k) =>
                  SavedAs(game_sessions'[k], apiRequest'.op, apiRequest'.body)

\* C12: with a reachable store, a save of round 1, 2 or 3 with all its
\* arguments returns true and leaves the session with the status, the
\* rounds_completed, the current_round (round 1), the total_score and the
\* total_time (round 3) the claim lists.
C12_SaveSequenceValues == [][C12_SaveStep]_vars

\* A fresh session went through the saves of rounds 1, 2 and 3, the last
\* one with a positive round score on top of a positive previous total.
C12_Witness ==
    /\ apiRequest.op = "round3"
    /\ apiResponse.success
    /\ apiRequest.body # EmptyBody
    /\ apiRequest.body.roundScore > 0
    /\ apiRequest.body.previousTotalScore > 0
    /\ \E k \in DOMAIN game_sessions :
         /\ apiRequest.id = DbId(k)
         /\ {"round1_score", "round2_score", "round3_score"}
              \subseteq DOMAIN game_sessions[k]
         /\ game_sessions[k].status = "Finished"
         /\ game_sessions[k].rounds_completed = 3
         /\ game_sessions[k].total_score =
              apiRequest.body.previousTotalScore + apiRequest.body.roundScore

\* ---- C13

\* Neighbours are in descending order of total_score and, at equal
\* total_score, in ascending order of total_time.
ByScoreThenTime(lb) ==
    \A i \in 1..(Len(lb) - 1) :
        ({"total_score", "total_time"} \subseteq (DOMAIN lb[i] \cap DOMAIN lb[i + 1])) =>
            \/ lb[i].total_score > lb[i + 1].total_score
            \/ /\ lb[i].total_score = lb[i + 1].total_score
               /\ lb[i].total_time <= lb[i + 1].total_time

\* C13: the persisted leaderboard holds only sessions whose status is
\* "Finished", ordered by total_score descending and then total_time
\* ascending, and has at most limit entries.
C13_OnlyFinishedSortedLimited ==
    apiRequest.op = "leaderboard" =>
        /\ \A i \in 1..Len(apiResponse.leaderboard) :
              apiResponse.leaderboard[i].status = "Finished"
        /\ ByScoreThenTime(apiResponse.leaderboard)
        /\ Len(apiResponse.leaderboard) <= apiRequest.body.limit

\* ---- C14

\* The request lacks a field its handler requires.
LacksRequiredField(req) ==
    \/ req.op = "createSession" /\ req.body.playerName = ""
    \/ req.op \in SaveOps /\ req.body = EmptyBody

C14_RejectStep ==
    LacksRequiredField(apiRequest') =>
        /\ apiResponse'.status = 400
        /\ game_sessions' = game_sessions

\* C14: a request that lacks a required field is answered with a client
\* error and changes nothing in the store.
C14_IncompleteRequestRejected == [][C14_RejectStep]_vars

\* ---- C15

\* C15: a fetch of an id no session has is answered "not found"; a fetch
\* the store answers with an error is answered otherwise.
C15_NotFoundDistinctFromFailure ==
    apiRequest.op = "getSession" =>
        /\ (configured /\ apiRequest.reachable
              /\ ~RowExists(game_sessions, apiRequest.id))
             => apiResponse.status = 404
        /\ (configured /\ ~StartsWithLocal(apiRequest.id) /\ ~apiRequest.reachable)
             => apiResponse.status # 404

\* ---- C16

C16_RestStep ==
    lastEvent'.op = "rest" =>
        /\ persistentPlayers' = persistentPlayers
        /\ socketPlayers' = socketPlayers
        /\ playerSessions' = playerSessions
        /\ lastBroadcast' = lastBroadcast
        /\ ~lastEvent'.emitted

\* C16: a REST request changes neither the ScoreBoard, nor the connection
\* bindings, nor the name-to-session map, and emits no leaderboard.
C16_RestLeavesLiveState == [][C16_RestStep]_vars

\* A REST request has created a session in the store while a bound player
\* with a score was on the ScoreBoard.
C16_Witness ==
    /\ lastEvent.op = "rest"
    /\ apiRequest.op = "createSession"
    /\ apiResponse.status = 200
    /\ ~StartsWithLocal(apiResponse.session)
    /\ \E s \in DOMAIN socketPlayers :
         /\ Known(socketPlayers[s])
         /\ Profile(socketPlayers[s]).score > 0
         /\ socketPlayers[s] \in DOMAIN playerSessions
    /\ lastBroadcast # <<>>

\* ---- C17

C17_UnboundStep ==
    (lastEvent'.op = "update_progress" /\ ~lastEvent'.bound) =>
        /\ persistentPlayers' = persistentPlayers
        /\ socketPlayers' = socketPlayers
        /\ playerSessions' = playerSessions
        /\ pendingJoins' = pendingJoins
        /\ lastBroadcast' = lastBroadcast
        /\ ~lastEvent'.emitted

\* C17: an update_progress of a connection without a binding changes
\* neither the ScoreBoard, nor the bindings, nor the session map, and emits
\* nothing.
C17_UnboundUpdateIsNoOp == [][C17_UnboundStep]_vars

\* A connection that never joined has sent a scored update while another
\* connection's player was on the ScoreBoard.
C17_Witness ==
    /\ lastEvent.op = "update_progress"
    /\ ~lastEvent.bound
    /\ Known("alice")
    /\ DOMAIN socketPlayers # {}
    /\ connected \ DOMAIN socketPlayers # {}

\* ---- C18

\* The payload lists the profiles of the ScoreBoard m, each once.
ListsProfilesOf(lb, m) ==
    /\ Len(lb) = Len(m)
    /\ {Unranked(lb)[i] : i \in 1..Len(lb)} = {m[i].value : i \in 1..Len(m)}

C18_BroadcastStep ==
    /\ (lastEvent'.op = "update_progress" /\ lastEvent'.bound) => lastEvent'.emitted
    /\ lastEvent'.emitted =>
         /\ ListsProfilesOf(lastBroadcast', persistentPlayers')
         /\ SortedByScoreDescending(lastBroadcast')

\* C18: an update_progress of a bound connection emits a leaderboard in the
\* same step, and every emitted leaderboard ranks the profiles the
\* ScoreBoard holds when it is emitted.
C18_BroadcastIsFresh == [][C18_BroadcastStep]_vars

\* The second player to join has just reported a score and leads the
\* emitted leaderboard.
C18_Witness ==
    /\ lastEvent.op = "update_progress"
    /\ lastEvent.emitted
    /\ Len(persistentPlayers) = 2
    /\ Len(lastBroadcast) = 2
    /\ lastBroadcast[1] = ("rank" :> 1) @@ persistentPlayers[2].value
    /\ lastBroadcast[1].score > lastBroadcast[2].score

\* ---- C19

C19_FirstJoinStep ==
    \A u \in Usernames :
        (lastEvent'.op = "join" /\ ~Known(u) /\ MapHas(persistentPlayers', u)) =>
            MapGet(persistentPlayers', u).avatarUrl
                \in {PlaceholderAvatar(u)} \cup (AvatarUrls \ {""})

\* C19: the profile a first join creates holds the avatar the join
\* supplied or, when it supplied none, the placeholder generated from the
\* display name.
C19_FirstJoinHasAvatar == [][C19_FirstJoinStep]_vars

\* ---- C20

\* C20: the profile stored under key k has username k.
C20_KeyIsUsername ==
    \A i \in 1..Len(persistentPlayers) :
        persistentPlayers[i].value.username = persistentPlayers[i].key

\* ---- C21

\* The requests that name a session.
SessionOps ==
    {"updateSession", "round1", "round2", "round3", "getSession",
     "updateRound", "complete"}

\* The response carries the handler's rendering of the service's sentinel:
\* false for a round save, null for the other methods.
CarriesSentinel(op, response) ==
    CASE op \in SaveOps -> response.success = FALSE
      [] op = "getSession" -> response.status = 404
      [] op \in {"updateSession", "updateRound", "complete"} -> response.found = FALSE

C21_LocalIdStep ==
    /\ (/\ lastEvent'.op \in {"none", "rest"}
        /\ apiRequest'.op \in SessionOps
        /\ StartsWithLocal(apiRequest'.id)) =>
           /\ ~storeCalled'
           /\ game_sessions' = game_sessions
           /\ CarriesSentinel(apiRequest'.op, apiResponse')
    /\ (/\ lastEvent'.op \in {"round_complete", "game_complete"}
        /\ \A u \in DOMAIN playerSessions : StartsWithLocal(playerSessions[u])) =>
           /\ ~storeCalled'
           /\ game_sessions' = game_sessions

\* C21: a method of the service called with a "local-" session id issues no
\* store call, leaves the store as it is and returns its sentinel, whether
\* or not the store is configured.
C21_LocalIdNeverReachesStore == [][C21_LocalIdStep]_vars

\* With a configured store that answers and holds a session, a round save
\* for a "local-" id was answered false.
C21_Witness ==
    /\ configured
    /\ game_sessions # <<>>
    /\ apiRequest.op \in SaveOps
    /\ StartsWithLocal(apiRequest.id)
    /\ apiRequest.reachable
    /\ apiRequest.body # EmptyBody
    /\ apiResponse.success = FALSE
    /\ ~storeCalled

====
